---- MODULE Spec2Model ----
(***************************************************************************)
(* A model of the split-APK merge pipeline of                              *)
(* backend/src/apk/apk.service.ts (class ApkService).                      *)
(*                                                                         *)
(*   Spec          mergeApks: one merge request, step by step (one action  *)
(*                 per awaited call of mergeApks), with the failures the   *)
(*                 external tools and the file system can produce.         *)
(*   MergeSpec     mergeApkContents: the tree merge (mergeDirContents) and *)
(*                 the apktool.yml merge on unpacked trees.                *)
(*   ManifestSpec  updateMainManifestFile: the four textual replacements.  *)
(*   ScanSpec      getDoNotCompressLines and getDoNotCompressRange on the  *)
(*                 same lines of an apktool.yml.                           *)
(*   ConcSpec      several mergeApks requests in flight at once, each with *)
(*                 the workspace createTmpDir names after the clock.       *)
(*                                                                         *)
(* JavaScript strings are sequences of UTF-16 code units: a file name or a *)
(* line of apktool.yml is a sequence of numbers, compared as               *)
(* Array.prototype.sort() compares strings.                                *)
(***************************************************************************)
EXTENDS Integers, Sequences, FiniteSets, TLC

VARIABLES
    \* ---- mergeApks (Spec) ----
    pc,          \* the statement of mergeApks that runs next
    inputKind,   \* what inputPath names: "missing", "file" or "dir"
    listing,     \* fs.readdirSync(inputPath): the names, in on-disk order
    apkFiles,    \* the list prepareApkFiles returned
    prepared,    \* prepareApkFiles has returned
    idx,         \* loop index of the unpack loop, then of the merge loop
    events,      \* the external tools run and the steps done, in order
    tmpDir,      \* "none", "exists" (the workspace is on disk) or "removed"
    rmCalls,     \* how often fs.promises.rm(tmpDir) was called
    rmOk,        \* "none", "ok" or "failed": how that call ended
    pending,     \* completion of the try block: "none", "return" or the error
    result,      \* what the caller receives: "none", "ok" or the error
    packExit,    \* "none", "zero" or "nonzero": exit status of apktool b
    target,      \* target.apk in the workspace: "none", "built" or "aligned"
    destParent,  \* dirname(outputPath) exists
    destFile,    \* outputPath: "none", "old" or what was copied there
    destParent0, \* destParent when the request started
    destFile0,   \* destFile when the request started
    dist,        \* what apktool b left as dist: "none", "missing", "empty", "file"
    outputAt,    \* where outputPath lies: "outside" or in the "input" directory
    inputNames,  \* the entries of the input directory that are as they were
    wsArchives,  \* the archives lying in the workspace
    \* ---- mergeApkContents (MergeSpec) ----
    mBase,       \* the base tree: path -> node
    mYml,        \* the base tree's apktool.yml: "absent" or its lines
    mSec,        \* the secondary component merged last
    mFirst,      \* per path, the file of the first component that holds it
    mPrev,       \* the base tree before the last mergeApkContents call
    mPrevYml,    \* the base's apktool.yml before that call
    mOnce,       \* base tree and config after the first merge of mSec
    mCount,      \* secondaries merged so far
    mPhase,      \* "ready", "merged", "remerged" or "failed"
    \* ---- updateMainManifestFile (ManifestSpec) ----
    manExists,   \* AndroidManifest.xml exists in the base tree
    manText,     \* its text
    manOnce,     \* its text after the first run of the sanitizer
    manRuns,     \* runs of the sanitizer so far
    \* ---- the two scans of apktool.yml (ScanSpec) ----
    scanLines,   \* the lines of an apktool.yml
    scanPhase,   \* "input" or "scanned"
    scanItems,   \* what getDoNotCompressLines returned
    scanRange,   \* what getDoNotCompressRange returned
    \* ---- concurrent requests (ConcSpec) ----
    clock,       \* Date.now()
    cPc,         \* per request: "start", "work", "finally" or "done"
    cTmp,        \* per request: the tmpDir createTmpDir returned, or -1
    cWritten,    \* per request: the files it has written into its tmpDir
    cFailed,     \* per request: a write into its tmpDir has failed
    wsExists,    \* the workspace directories on disk
    wsFiles      \* per workspace directory: the requests with files in it

pipeVars == <<pc, inputKind, listing, apkFiles, prepared, idx, events, tmpDir,
              rmCalls, rmOk, pending, result, packExit, target, destParent,
              destFile, destParent0, destFile0, dist, outputAt, inputNames,
              wsArchives>>
mergeVars == <<mBase, mYml, mSec, mFirst, mPrev, mPrevYml, mOnce, mCount, mPhase>>
manVars == <<manExists, manText, manOnce, manRuns>>
scanVars == <<scanLines, scanPhase, scanItems, scanRange>>
concVars == <<clock, cPc, cTmp, cWritten, cFailed, wsExists, wsFiles>>
vars == <<pipeVars, mergeVars, manVars, scanVars, concVars>>

---------------------------------------------------------------------------
(* Bounds of the model. *)

\* Most entries of the input directory.
MaxFiles == 3

\* Most secondary components merged into one base tree.
MaxSecondaries == 2

\* Longest manifest text, in tokens.
MaxManifestLen == 5

\* Most runs of the manifest sanitizer on one manifest.
MaxSanitizerRuns == 2

\* Most lines of an apktool.yml handed to the two scans.
MaxYmlLines == 4

\* Last value of the clock.
MaxClock == 2

\* Most files a request writes into its workspace.
MaxWrites == 2

---------------------------------------------------------------------------
(* Strings. *)

\* '.apk'
CONST_EXT_APK == <<46, 97, 112, 107>>

\* 'base.apk'
BaseApk == <<98, 97, 115, 101, 46, 97, 112, 107>>

\* Entries an input directory may hold: a.apk, base.apk, c.apk, B.apk,
\* base.txt, xapk.
FileNames ==
    { <<97>> \o CONST_EXT_APK, BaseApk, <<99>> \o CONST_EXT_APK,
      <<66>> \o CONST_EXT_APK, <<98, 97, 115, 101, 46, 116, 120, 116>>,
      <<120, 97, 112, 107>> }

\* String.prototype.endsWith
EndsWith(s, suffix) ==
    /\ Len(s) >= Len(suffix)
    /\ SubSeq(s, Len(s) - Len(suffix) + 1, Len(s)) = suffix

\* a < b as Array.prototype.sort() orders two strings: by code units.
StrLess(a, b) ==
    LET n == IF Len(a) < Len(b) THEN Len(a) ELSE Len(b)
        diff == {k \in 1..n : a[k] # b[k]}
    IN  IF diff = {}
        THEN Len(a) < Len(b)
        ELSE LET k == CHOOSE d \in diff : \A e \in diff : d <= e
             IN  a[k] < b[k]

RECURSIVE Insert(_, _)
Insert(x, s) ==
    IF s = <<>> \/ ~StrLess(Head(s), x)
    THEN <<x>> \o s
    ELSE <<Head(s)>> \o Insert(x, Tail(s))

RECURSIVE SortStrings(_)
\* Array.prototype.sort() with no comparator, on strings.
SortStrings(s) ==
    IF s = <<>> THEN <<>> ELSE Insert(Head(s), SortStrings(Tail(s)))

\* Array.prototype.indexOf: the 0-based index of the first x, or -1.
IndexOf(s, x) ==
    IF \E k \in 1..Len(s) : s[k] = x
    THEN (CHOOSE k \in 1..Len(s) : s[k] = x /\ \A m \in 1..(k - 1) : s[m] # x) - 1
    ELSE -1

\* base.apk brought to the front by exchanging it with the first file.
MoveBySwap(files, baseIndex) ==
    [k \in 1..Len(files) |->
        IF k = 1 THEN files[baseIndex + 1]
        ELSE IF k = baseIndex + 1 THEN files[1]
        ELSE files[k]]

\* files.unshift(files.splice(baseIndex, 1)[0])
MoveStraight(files, baseIndex) ==
    <<files[baseIndex + 1]>>
        \o SubSeq(files, 1, baseIndex)
        \o SubSeq(files, baseIndex + 2, Len(files))

\* The list prepareApkFiles builds from a directory listing.
PrepareList(names) ==
    LET files == SortStrings(SelectSeq(names, LAMBDA f : EndsWith(f, CONST_EXT_APK)))
        baseIndex == IndexOf(files, BaseApk)
    IN  IF baseIndex > 0 THEN MoveStraight(files, baseIndex) ELSE files

\* Directory listings: the names of a directory are distinct.
Listings ==
    {s \in UNION {[1..n -> FileNames] : n \in 0..MaxFiles} :
        \A a, b \in 1..Len(s) : a # b => s[a] # s[b]}

---------------------------------------------------------------------------
(* mergeApks. *)

\* The error kinds a request can end with.
Errors ==
    {"TmpDirError", "InvalidInput", "FsError", "UnpackFailure", "RepackFailure",
     "RepackOutputMissing", "AlignFailure", "CleanupError"}

\* The next statement runs; the try block has not completed.
Goto(p) == pc' = p /\ UNCHANGED <<pending, result>>

\* A throw that leaves mergeApks at once, as it would with the removal of
\* the workspace written at the end of the try block only.
ThrowPastCleanup(e) == pc' = "done" /\ pending' = e /\ result' = e

\* A throw inside the try block: catch logs and rethrows, finally runs next.
Throw(e) == pc' = "finally" /\ pending' = e /\ UNCHANGED result

Log(kind, arg) == events' = Append(events, <<kind, arg>>)

\* The names of a list of files.
Names(files) == {files[k] : k \in 1..Len(files)}

\* The archive is deleted where it was read from, in the input directory.
UnlinkOriginal(apkFile) ==
    inputNames' = inputNames \ {apkFile} /\ UNCHANGED wsArchives

\* fs.promises.unlink(path.join(tmpDir, apkFile)): the copy in the workspace
\* is deleted.
UnlinkArchive(apkFile) ==
    wsArchives' = wsArchives \ {apkFile} /\ UNCHANGED inputNames

\* One mergeApkContents call with the config merge before the tree merge.
ConfigThenTree(secDir, withYml) ==
    IF withYml
    THEN << <<"mergeApktoolYml", secDir>>, <<"mergeDirContents", secDir>> >>
    ELSE << <<"mergeDirContents", secDir>> >>

\* The steps of one mergeApkContents call, in order: the tree merge over
\* dirsToMerge, then mergeApktoolYml when both trees hold an apktool.yml.
MergeCalls(secDir, withYml) ==
    IF withYml
    THEN << <<"mergeDirContents", secDir>>, <<"mergeApktoolYml", secDir>> >>
    ELSE << <<"mergeDirContents", secDir>> >>

\* const tmpDir = await this.createTmpDir(), before the try block.
CreateTmpDir ==
    /\ pc = "start"
    /\ \/ tmpDir' = "exists" /\ Goto("prepare")
       \/ pc' = "done" /\ result' = "TmpDirError" /\ UNCHANGED <<tmpDir, pending>>
    /\ UNCHANGED <<mergeVars, manVars, scanVars, concVars>>
    /\ UNCHANGED <<inputKind, listing, apkFiles, prepared, idx, events, rmCalls,
                   rmOk, packExit, target, destParent, destFile, destParent0,
                   destFile0, dist, outputAt, inputNames, wsArchives>>

\* 1. Prepare inputs: prepareApkFiles and the check of its result.
PrepareApkFiles ==
    /\ pc = "prepare"
    /\ \/ \* fs.statSync throws: inputPath does not exist
          /\ inputKind = "missing"
          /\ Throw("InvalidInput")
          /\ UNCHANGED <<apkFiles, prepared, idx, wsArchives>>
       \/ \* 'Input path must be a directory containing split APKs'
          /\ inputKind = "file"
          /\ Throw("InvalidInput")
          /\ UNCHANGED <<apkFiles, prepared, idx, wsArchives>>
       \/ \* a copyFile into the workspace fails, after some have been copied
          /\ inputKind = "dir"
          /\ \E n \in 0..(Len(PrepareList(listing)) - 1) :
                wsArchives' = Names(SubSeq(PrepareList(listing), 1, n))
          /\ Throw("FsError")
          /\ UNCHANGED <<apkFiles, prepared, idx>>
       \/ /\ inputKind = "dir"
          /\ apkFiles' = PrepareList(listing)
          /\ wsArchives' = Names(apkFiles')
          /\ prepared' = TRUE
          /\ IF Len(apkFiles') < 1
             THEN Throw("InvalidInput") /\ UNCHANGED idx
             ELSE Goto("unpack") /\ idx' = 1
    /\ UNCHANGED <<mergeVars, manVars, scanVars, concVars>>
    /\ UNCHANGED <<inputKind, listing, events, tmpDir, rmCalls, rmOk, packExit,
                   target, destParent, destFile, destParent0, destFile0, dist,
                   outputAt, inputNames>>

\* 2. Unpack APKs: one unpackApk call of the loop.
UnpackApk ==
    /\ pc = "unpack"
    /\ Log("apktool d", apkFiles[idx])
    /\ \/ \* apktool d exits non-zero, or the unlink of the archive fails
          /\ Throw("UnpackFailure")
          /\ UNCHANGED <<idx, inputNames, wsArchives>>
       \/ /\ UnlinkArchive(apkFiles[idx])
          /\ IF idx < Len(apkFiles)
             THEN Goto("unpack") /\ idx' = idx + 1
             ELSE IF Len(apkFiles) > 1
                  THEN Goto("merge") /\ idx' = 2
                  ELSE Goto("sig") /\ UNCHANGED idx
    /\ UNCHANGED <<mergeVars, manVars, scanVars, concVars>>
    /\ UNCHANGED <<inputKind, listing, apkFiles, prepared, tmpDir, rmCalls, rmOk,
                   packExit, target, destParent, destFile, destParent0, destFile0,
                   dist, outputAt>>

\* 3. Merge Contents: one mergeApkContents call of the loop.
MergeApkContentsStep ==
    /\ pc = "merge"
    /\ \/ \* a mergeDirContents call throws
          /\ events' = events \o MergeCalls(apkFiles[idx], FALSE)
          /\ Throw("FsError")
          /\ UNCHANGED idx
       \/ \* withYml: both trees hold an apktool.yml
          \E withYml \in BOOLEAN :
            /\ events' = events \o MergeCalls(apkFiles[idx], withYml)
            /\ \/ \* mergeApktoolYml throws: a read or the write fails
                  withYml /\ Throw("FsError") /\ UNCHANGED idx
               \/ IF idx < Len(apkFiles)
                  THEN Goto("merge") /\ idx' = idx + 1
                  ELSE Goto("sig") /\ UNCHANGED idx
    /\ UNCHANGED <<mergeVars, manVars, scanVars, concVars>>
    /\ UNCHANGED <<inputKind, listing, apkFiles, prepared, tmpDir, rmCalls, rmOk,
                   packExit, target, destParent, destFile, destParent0, destFile0,
                   dist, outputAt, inputNames, wsArchives>>

\* 4. deleteSignatureRelatedFiles(mainApkPath)
DeleteSignatureRelatedFiles ==
    /\ pc = "sig"
    /\ Log("deleteSignatureRelatedFiles", apkFiles[1])
    /\ \/ Throw("FsError")
       \/ Goto("manifest")
    /\ UNCHANGED <<mergeVars, manVars, scanVars, concVars>>
    /\ UNCHANGED <<inputKind, listing, apkFiles, prepared, idx, tmpDir, rmCalls,
                   rmOk, packExit, target, destParent, destFile, destParent0,
                   destFile0, dist, outputAt, inputNames, wsArchives>>

\* 4. updateMainManifestFile(mainApkPath)
UpdateMainManifestFileStep ==
    /\ pc = "manifest"
    /\ Log("updateMainManifestFile", apkFiles[1])
    /\ \/ Throw("FsError")
       \/ Goto("pack")
    /\ UNCHANGED <<mergeVars, manVars, scanVars, concVars>>
    /\ UNCHANGED <<inputKind, listing, apkFiles, prepared, idx, tmpDir, rmCalls,
                   rmOk, packExit, target, destParent, destFile, destParent0,
                   destFile0, dist, outputAt, inputNames, wsArchives>>

\* 5. Repack: packApk.
PackApk ==
    /\ pc = "pack"
    /\ Log("apktool b", apkFiles[1])
    /\ \/ \* apktool b exits non-zero
          /\ packExit' = "nonzero"
          /\ dist' \in {"missing", "empty", "file"}
          /\ Throw("RepackFailure")
          /\ UNCHANGED target
       \/ \* exit 0, no dist directory: readdir throws ENOENT
          /\ packExit' = "zero"
          /\ dist' = "missing"
          /\ Throw("FsError")
          /\ UNCHANGED target
       \/ \* exit 0, dist is empty: 'Result APK not found in dist'
          /\ packExit' = "zero"
          /\ dist' = "empty"
          /\ Throw("RepackOutputMissing")
          /\ UNCHANGED target
       \/ \* exit 0, the copy to target.apk fails
          /\ packExit' = "zero"
          /\ dist' = "file"
          /\ Throw("FsError")
          /\ UNCHANGED target
       \/ /\ packExit' = "zero"
          /\ dist' = "file"
          /\ target' = "built"
          /\ Goto("align")
    /\ UNCHANGED <<mergeVars, manVars, scanVars, concVars>>
    /\ UNCHANGED <<inputKind, listing, apkFiles, prepared, idx, tmpDir, rmCalls,
                   rmOk, destParent, destFile, destParent0, destFile0, outputAt,
                   inputNames, wsArchives>>

\* 6. Zipalign: zipalignApk.
ZipalignApk ==
    /\ pc = "align"
    /\ Log("zipalign", apkFiles[1])
    /\ \/ \* zipalign exits non-zero, or the rename onto target.apk fails
          Throw("AlignFailure") /\ UNCHANGED target
       \/ target' = "aligned" /\ Goto("mkdirOut")
    /\ UNCHANGED <<mergeVars, manVars, scanVars, concVars>>
    /\ UNCHANGED <<inputKind, listing, apkFiles, prepared, idx, tmpDir, rmCalls,
                   rmOk, packExit, destParent, destFile, destParent0, destFile0,
                   dist, outputAt, inputNames, wsArchives>>

\* 7. fs.promises.mkdir(path.dirname(outputPath), { recursive: true })
MkdirOutput ==
    /\ pc = "mkdirOut"
    /\ \/ Throw("FsError") /\ UNCHANGED destParent
       \/ destParent' = TRUE /\ Goto("copyOut")
    /\ UNCHANGED <<mergeVars, manVars, scanVars, concVars>>
    /\ UNCHANGED <<inputKind, listing, apkFiles, prepared, idx, events, tmpDir,
                   rmCalls, rmOk, packExit, target, destFile, destParent0,
                   destFile0, dist, outputAt, inputNames, wsArchives>>

\* 7. fs.promises.copyFile(targetApk, outputPath); return outputPath
CopyToOutput ==
    /\ pc = "copyOut"
    /\ \/ \* the copy fails: before the destination is opened, or after, and
          \* then the destination is removed
          /\ Throw("FsError")
          /\ destFile' \in {destFile, "none"}
       \/ /\ destFile' = target
          /\ pc' = "finally"
          /\ pending' = "return"
          /\ UNCHANGED result
    /\ UNCHANGED <<mergeVars, manVars, scanVars, concVars>>
    /\ UNCHANGED <<inputKind, listing, apkFiles, prepared, idx, events, tmpDir,
                   rmCalls, rmOk, packExit, target, destParent, destParent0,
                   destFile0, dist, outputAt, inputNames, wsArchives>>

\* finally: await fs.promises.rm(tmpDir, { recursive: true, force: true }).
\* An error thrown here replaces the completion of the try block.
Cleanup ==
    /\ pc = "finally"
    /\ rmCalls' = rmCalls + 1
    /\ pc' = "done"
    /\ \/ /\ rmOk' = "ok"
          /\ tmpDir' = "removed"
          /\ wsArchives' = {}
          /\ result' = IF pending = "return" THEN "ok" ELSE pending
       \/ /\ rmOk' = "failed"
          /\ result' = "CleanupError"
          /\ UNCHANGED <<tmpDir, wsArchives>>
    /\ UNCHANGED <<mergeVars, manVars, scanVars, concVars>>
    /\ UNCHANGED <<inputKind, listing, apkFiles, prepared, idx, events, pending,
                   packExit, target, destParent, destFile, destParent0, destFile0,
                   dist, outputAt, inputNames>>

MergeIdle ==
    /\ mBase = <<>> /\ mYml = <<>> /\ mSec = <<>> /\ mFirst = <<>>
    /\ mPrev = <<>> /\ mPrevYml = <<>> /\ mOnce = <<>> /\ mCount = 0
    /\ mPhase = "idle"

ManifestIdle ==
    /\ manExists = FALSE /\ manText = <<>> /\ manOnce = <<>> /\ manRuns = 0

ScanIdle ==
    /\ scanLines = <<>> /\ scanPhase = "idle" /\ scanItems = <<>>
    /\ scanRange = <<>>

ConcIdle ==
    /\ clock = 0 /\ cPc = <<>> /\ cTmp = <<>> /\ cWritten = <<>>
    /\ cFailed = <<>> /\ wsExists = {} /\ wsFiles = <<>>

PipeIdle ==
    /\ pc = "idle" /\ inputKind = "missing" /\ listing = <<>> /\ apkFiles = <<>>
    /\ prepared = FALSE /\ idx = 0 /\ events = <<>> /\ tmpDir = "none"
    /\ rmCalls = 0 /\ rmOk = "none" /\ pending = "none" /\ result = "none"
    /\ packExit = "none" /\ target = "none" /\ destParent = FALSE
    /\ destFile = "none" /\ destParent0 = FALSE /\ destFile0 = "none"
    /\ dist = "none" /\ outputAt = "outside" /\ inputNames = {}
    /\ wsArchives = {}

\* A merge request: mergeApks(inputPath, outputPath) is called.
Init ==
    /\ pc = "start"
    /\ inputKind \in {"missing", "file", "dir"}
    /\ listing \in IF inputKind = "dir" THEN Listings ELSE {<<>>}
    /\ apkFiles = <<>>
    /\ prepared = FALSE
    /\ idx = 0
    /\ events = <<>>
    /\ tmpDir = "none"
    /\ rmCalls = 0
    /\ rmOk = "none"
    /\ pending = "none"
    /\ result = "none"
    /\ packExit = "none"
    /\ target = "none"
    /\ outputAt \in IF inputKind = "dir" THEN {"outside", "input"} ELSE {"outside"}
    /\ destParent0 \in IF outputAt = "input" THEN {TRUE} ELSE BOOLEAN
    /\ destFile0 \in IF destParent0 THEN {"none", "old"} ELSE {"none"}
    /\ destParent = destParent0
    /\ destFile = destFile0
    /\ dist = "none"
    /\ inputNames = Names(listing)
    /\ wsArchives = {}
    /\ MergeIdle
    /\ ManifestIdle
    /\ ScanIdle
    /\ ConcIdle

Next ==
    \/ CreateTmpDir
    \/ PrepareApkFiles
    \/ UnpackApk
    \/ MergeApkContentsStep
    \/ DeleteSignatureRelatedFiles
    \/ UpdateMainManifestFileStep
    \/ PackApk
    \/ ZipalignApk
    \/ MkdirOutput
    \/ CopyToOutput
    \/ Cleanup

Spec == Init /\ [][Next]_vars

---------------------------------------------------------------------------
(* Properties of mergeApks, checked under Spec. *)

ToolKinds == {"apktool d", "apktool b", "zipalign"}

Ran(kind) == \E k \in 1..Len(events) : events[k][1] = kind

DestinationUntouched == destFile = destFile0 /\ destParent = destParent0

\* The try block's own outcome, as the caller should see it.
PipelineOutcome == IF pending = "return" THEN "ok" ELSE pending

Ascending(s) == \A a, b \in 1..Len(s) : a < b => StrLess(s[a], s[b])

ApkNames == {listing[k] : k \in {m \in 1..Len(listing) : EndsWith(listing[m], CONST_EXT_APK)}}

\* The input the collector rejects: no directory, or a directory without
\* any .apk file.
BadInput == inputKind # "dir" \/ ApkNames = {}

\* C1 (as amended): a run that created its workspace calls the recursive
\* removal exactly once on every exit path, never before the try block has
\* completed, and the workspace is gone when mergeApks returns or throws
\* unless that removal itself failed.
C1_CleanupOnEveryExit ==
    /\ rmCalls <= 1
    /\ pc \notin {"start", "done"} => tmpDir = "exists" /\ rmCalls = 0
    /\ (pc = "done" /\ tmpDir # "none") => rmCalls = 1 /\ rmOk # "none"
    /\ (pc = "done" /\ rmOk = "ok") => tmpDir = "removed"

\* A run whose final copy failed and whose workspace was removed.
C1_Witness ==
    /\ pc = "done" /\ pending = "FsError" /\ target = "aligned"
    /\ rmCalls = 1 /\ tmpDir = "removed"

\* C1 as stated: whenever mergeApks has returned or thrown, the workspace
\* it created is deleted.
C1_AsStated == (pc = "done" /\ tmpDir # "none") => tmpDir = "removed"

\* C2: no merge request partially succeeds: a finished run either returned
\* the path with the aligned archive at the destination, or failed with the
\* destination and its parent directory as they were (stated for the runs
\* whose cleanup worked, where the caller sees the pipeline's own outcome).
C2_NoPartialSuccess ==
    (pc = "done" /\ rmOk = "ok") =>
        \/ result = "ok" /\ destFile = "aligned"
        \/ result \in Errors /\ DestinationUntouched

\* C3: a failure to delete the workspace never changes the outcome: the
\* caller receives the path when the pipeline succeeded and the pipeline's
\* error E when it failed.
C3_CleanupNeverMasks == (pc = "done" /\ rmCalls = 1) => result = PipelineOutcome

\* C4: prepareApkFiles returns exactly the .apk files of the listing,
\* base.apk first when present and the others after it in ascending order;
\* without base.apk the whole list is ascending.
C4_BaseFirstRestSorted ==
    prepared =>
        /\ {apkFiles[k] : k \in 1..Len(apkFiles)} = ApkNames
        /\ Len(apkFiles) = Cardinality(ApkNames)
        /\ BaseApk \in ApkNames => apkFiles[1] = BaseApk /\ Ascending(Tail(apkFiles))
        /\ BaseApk \notin ApkNames => Ascending(apkFiles)

\* The listing a.apk, base.apk, B.apk gives base.apk, B.apk, a.apk.
C4_Witness ==
    /\ prepared
    /\ listing = <<(<<97>> \o CONST_EXT_APK), BaseApk, (<<66>> \o CONST_EXT_APK)>>
    /\ apkFiles = <<BaseApk, (<<66>> \o CONST_EXT_APK), (<<97>> \o CONST_EXT_APK)>>

\* C5: on a missing input path, a non-directory or a directory without .apk
\* files, mergeApks fails with the invalid-input error, runs no external
\* tool, leaves the destination alone and leaves no workspace behind.
C5_InvalidInputLeavesNothing ==
    /\ BadInput => \A kind \in ToolKinds : ~Ran(kind)
    /\ (BadInput /\ pc = "done" /\ tmpDir # "none") =>
            /\ result = "InvalidInput"
            /\ DestinationUntouched
            /\ tmpDir = "removed"

\* C6: when apktool b exits non-zero, mergeApks fails with the repack
\* failure, neither align nor the copy to the destination runs, the
\* destination is as it was and the workspace is removed.
C6_RepackFailureLeavesNothing ==
    /\ packExit = "nonzero" => ~Ran("zipalign") /\ DestinationUntouched
    /\ (packExit = "nonzero" /\ pc = "done") =>
            /\ result = "RepackFailure"
            /\ tmpDir = "removed"

\* C12: an align failure is a hard error: when zipalign or the rename of
\* the aligned file fails, mergeApks fails with the align failure, the
\* destination stays as it was, and the destination is only ever written
\* with the aligned archive.
C12_AlignFailureIsHard ==
    /\ destFile # "built"
    /\ destFile # destFile0 => target = "aligned"
    /\ pending = "AlignFailure" => DestinationUntouched
    /\ (pending = "AlignFailure" /\ pc = "done") => result = "AlignFailure"

\* The input directory holds what it held when the request started.
InputDirUnchanged ==
    /\ inputNames = Names(listing)
    /\ outputAt = "input" => destFile = destFile0

\* C14 (as amended): every split is in the workspace before it is unpacked,
\* every step before the copy to the output leaves the input directory as
\* it was, and the input directory is changed by the copy to the output
\* alone, when outputPath lies inside the input directory.
C14_InputOnlyChangedByOutputCopy ==
    /\ pc = "unpack" => apkFiles[idx] \in wsArchives
    /\ inputNames = Names(listing)
    /\ pc \notin {"finally", "done"} => InputDirUnchanged
    /\ target # "aligned" => InputDirUnchanged
    /\ outputAt = "outside" => InputDirUnchanged

\* A successful run on two splits with the output outside the input
\* directory: both archives were unpacked and deleted in the workspace.
C14_Witness ==
    /\ pc = "done" /\ result = "ok" /\ outputAt = "outside"
    /\ Len(apkFiles) = 2 /\ wsArchives = {}
    /\ inputNames = Names(apkFiles)
    /\ destFile = "aligned"

\* C14 as stated: the input directory is the same after mergeApks as
\* before, on success and on failure.
C14_AsStated == pc = "done" => InputDirUnchanged

\* The steps of a run on the splits files, the config merges left out.
StepsWithoutConfigMerge(files) ==
    [k \in 1..Len(files) |-> <<"apktool d", files[k]>>]
        \o [k \in 1..(Len(files) - 1) |-> <<"mergeDirContents", files[k + 1]>>]
        \o << <<"deleteSignatureRelatedFiles", files[1]>>,
              <<"updateMainManifestFile", files[1]>>,
              <<"apktool b", files[1]>>,
              <<"zipalign", files[1]>> >>

C16_UnpackFailureIsTerminal ==
    pending = "UnpackFailure" =>
        /\ Len(events) <= Len(apkFiles)
        /\ \A k \in 1..Len(events) : events[k] = <<"apktool d", apkFiles[k]>>
        /\ target = "none" /\ DestinationUntouched
        /\ pc = "done" => result = "UnpackFailure"

\* C18: when apktool b exits zero and dist holds no file, being empty or
\* missing, packApk throws 'Result APK not found in dist' and no target.apk
\* is produced.
C18_OutputMissingIsDistinct ==
    (packExit = "zero" /\ dist \in {"missing", "empty"}) =>
        /\ pending = "RepackOutputMissing"
        /\ target = "none"

---------------------------------------------------------------------------
(* apktool.yml: the do-not-compress block. *)

\* 'doNotCompress:'
KeyToken == <<100, 111, 78, 111, 116, 67, 111, 109, 112, 114, 101, 115, 115, 58>>

\* '- '
ItemMarker == <<45, 32>>

\* '#'
CommentMarker == <<35>>

\* The code units String.prototype.trim removes (those below 256).
WhiteSpace == {9, 10, 11, 12, 13, 32, 160}

RECURSIVE TrimStart(_)
TrimStart(s) ==
    IF s # <<>> /\ Head(s) \in WhiteSpace THEN TrimStart(Tail(s)) ELSE s

RECURSIVE TrimEnd(_)
TrimEnd(s) ==
    IF s # <<>> /\ s[Len(s)] \in WhiteSpace
    THEN TrimEnd(SubSeq(s, 1, Len(s) - 1))
    ELSE s

\* String.prototype.trim
Trim(s) == TrimEnd(TrimStart(s))

\* String.prototype.startsWith
StartsWith(s, prefix) ==
    Len(s) >= Len(prefix) /\ SubSeq(s, 1, Len(prefix)) = prefix

RECURSIVE LinesScan(_, _, _)
\* The loop of getDoNotCompressLines over the lines not read yet.
LinesScan(lines, inside, acc) ==
    IF lines = <<>>
    THEN acc
    ELSE LET line == Head(lines)
         IN  IF StartsWith(Trim(line), KeyToken)
             THEN LinesScan(Tail(lines), TRUE, acc)
             ELSE IF inside /\ StartsWith(Trim(line), ItemMarker)
                  THEN LinesScan(Tail(lines), inside, Append(acc, line))
                  ELSE IF inside /\ Trim(line) # <<>> /\ ~StartsWith(line, CommentMarker)
                       THEN acc
                       ELSE LinesScan(Tail(lines), inside, acc)

\* getDoNotCompressLines(lines)
GetDoNotCompressLines(lines) == LinesScan(lines, FALSE, <<>>)

RECURSIVE RangeScan(_, _, _, _)
\* The loop of getDoNotCompressRange from index i (0-based) on.
RangeScan(lines, i, inside, acc) ==
    IF i >= Len(lines)
    THEN acc
    ELSE LET line == lines[i + 1]
         IN  IF ~inside /\ StartsWith(Trim(line), KeyToken)
             THEN RangeScan(lines, i + 1, TRUE, acc)
             ELSE IF inside /\ StartsWith(Trim(line), ItemMarker)
                  THEN RangeScan(lines, i + 1, inside,
                         [startIndex |-> IF acc.startIndex = -1 THEN i ELSE acc.startIndex,
                          endIndex |-> i,
                          lines |-> Append(acc.lines, line)])
                  ELSE IF inside /\ Trim(line) # <<>>
                             /\ ~StartsWith(Trim(line), CommentMarker)
                       THEN acc
                       ELSE RangeScan(lines, i + 1, inside, acc)

\* getDoNotCompressRange(lines)
GetDoNotCompressRange(lines) ==
    RangeScan(lines, 0, FALSE, [startIndex |-> -1, endIndex |-> -1, lines |-> <<>>])

RECURSIVE SeqOfSet(_)
\* Array.from(new Set(...)), before it is sorted.
SeqOfSet(set) ==
    IF set = {}
    THEN <<>>
    ELSE LET x == CHOOSE y \in set : TRUE
         IN  <<x>> \o SeqOfSet(set \ {x})

\* The list cut off at start, the new items in place of all that followed.
SpliceToEnd(list, start, deleteCount, items) ==
    SubSeq(list, 1, start) \o items

\* Array.prototype.splice(start, deleteCount, ...items): the list after it.
Splice(list, start, deleteCount, items) ==
    SubSeq(list, 1, start)
        \o items
        \o SubSeq(list, start + deleteCount + 1, Len(list))

\* mergeApktoolYml with the two item lists concatenated, not united as a set.
MergeApktoolYmlNoSet(srcLines, dstLines) ==
    LET srcDoNotCompress == GetDoNotCompressLines(srcLines)
        range == GetDoNotCompressRange(dstLines)
        sorted == SortStrings(range.lines \o srcDoNotCompress)
    IN  IF Len(srcDoNotCompress) = 0
        THEN dstLines
        ELSE IF range.startIndex # -1 /\ range.endIndex # -1
             THEN Splice(dstLines, range.startIndex,
                         range.endIndex - range.startIndex + 1, sorted)
             ELSE dstLines

\* mergeApktoolYml(src, dst) on the lines of the two files: the lines
\* written to dst, or dst's lines when the function returns before writing.
MergeApktoolYml(srcLines, dstLines) ==
    LET srcDoNotCompress == GetDoNotCompressLines(srcLines)
        range == GetDoNotCompressRange(dstLines)
        combined == {range.lines[k] : k \in 1..Len(range.lines)}
                        \cup {srcDoNotCompress[k] : k \in 1..Len(srcDoNotCompress)}
        sorted == SortStrings(SeqOfSet(combined))
    IN  IF Len(srcDoNotCompress) = 0
        THEN dstLines
        ELSE IF range.startIndex # -1 /\ range.endIndex # -1
             THEN Splice(dstLines, range.startIndex,
                         range.endIndex - range.startIndex + 1, sorted)
             ELSE dstLines

---------------------------------------------------------------------------
(* Unpacked trees and mergeApkContents. *)

dirsToMerge == <<"assets", "lib", "res", "unknown", "kotlin">>

\* The paths a tree of the model may hold, relative to the tree's root.
TreePaths ==
    { <<"res">>, <<"res", "x">>, <<"res", "x", "y">>, <<"res", "z">>,
      <<"lib">>, <<"lib", "x">>, <<"smali">> }

NoNode == [kind |-> "none", data |-> 0]
DirNode == [kind |-> "dir", data |-> 0]
\* A file; its content is named after the component it was unpacked from.
FileNode(k) == [kind |-> "file", data |-> k]

NodeAt(tree, p) == IF p \in DOMAIN tree THEN tree[p] ELSE NoNode

\* fs.existsSync
Exists(tree, p) == NodeAt(tree, p).kind # "none"

Parent(p) == SubSeq(p, 1, Len(p) - 1)

\* The directory a path lies in is a directory (the tree's root is one).
ParentIsDir(tree, p) == Len(p) = 1 \/ NodeAt(tree, Parent(p)).kind = "dir"

Reverse(s) == [k \in 1..Len(s) |-> s[Len(s) + 1 - k]]

\* fs.promises.readdir(src): the entries of a directory, in an order the
\* file system chooses (one order or its reverse).
Entries(tree, p, rev) ==
    LET names == SeqOfSet({q \in DOMAIN tree :
                            Len(q) = Len(p) + 1 /\ Parent(q) = p /\ Exists(tree, q)})
    IN  IF rev THEN Reverse(names) ELSE names

\* Every leaf is copied, whatever lies at its destination.
CopyAlways(dstTree, dstPath) == TRUE

\* if (!fs.existsSync(dstPath)): the leaf is copied.
CopyWanted(dstTree, dstPath) == ~Exists(dstTree, dstPath)

RECURSIVE MergeDirContents(_, _, _, _)
RECURSIVE MergeEntries(_, _, _, _)

\* The loop of mergeDirContents over the entries not handled yet; ok is
\* FALSE when a call has thrown.
MergeEntries(src, dst, entries, rev) ==
    IF entries = <<>>
    THEN [tree |-> dst, ok |-> TRUE]
    ELSE LET q == Head(entries)
             step ==
                IF src[q].kind = "dir"
                THEN MergeDirContents(src, dst, q, rev)
                ELSE IF CopyWanted(dst, q)
                     THEN \* copyFile: fails below a file and onto a directory
                          IF ParentIsDir(dst, q) /\ NodeAt(dst, q).kind # "dir"
                          THEN [tree |-> [dst EXCEPT ![q] = src[q]], ok |-> TRUE]
                          ELSE [tree |-> dst, ok |-> FALSE]
                     ELSE [tree |-> dst, ok |-> TRUE]
         IN  IF step.ok THEN MergeEntries(src, step.tree, Tail(entries), rev) ELSE step

\* mergeDirContents(src, dst), src and dst being the same path p in the
\* secondary and in the base tree; rev is the order readdir lists in.
MergeDirContents(src, dst, p, rev) ==
    LET made ==
            IF ~Exists(dst, p)
            THEN \* mkdir recursive: fails below a file
                 IF ParentIsDir(dst, p)
                 THEN [tree |-> [dst EXCEPT ![p] = DirNode], ok |-> TRUE]
                 ELSE [tree |-> dst, ok |-> FALSE]
            ELSE [tree |-> dst, ok |-> TRUE]
    IN  IF ~made.ok
        THEN made
        ELSE IF src[p].kind # "dir"
             THEN \* readdir of a file throws
                  [tree |-> made.tree, ok |-> FALSE]
             ELSE MergeEntries(src, made.tree, Entries(src, p, rev), rev)

RECURSIVE MergeDirs(_, _, _, _)
\* The loop of mergeApkContents over dirsToMerge.
MergeDirs(src, dst, dirs, rev) ==
    IF dirs = <<>>
    THEN [tree |-> dst, ok |-> TRUE]
    ELSE LET p == <<Head(dirs)>>
             step == IF Exists(src, p)
                     THEN MergeDirContents(src, dst, p, rev)
                     ELSE [tree |-> dst, ok |-> TRUE]
         IN  IF step.ok THEN MergeDirs(src, step.tree, Tail(dirs), rev) ELSE step

\* mergeApkContents(mainDir, secDir): the base tree and the base's
\* apktool.yml after the call; ok is FALSE when the call has thrown.
MergeApkContents(main, sec, rev) ==
    LET merged == MergeDirs(sec.tree, main.tree, dirsToMerge, rev)
    IN  [tree |-> merged.tree,
         yml |-> IF merged.ok /\ sec.yml.exists /\ main.yml.exists
                 THEN [exists |-> TRUE, lines |-> MergeApktoolYml(sec.yml.lines, main.yml.lines)]
                 ELSE main.yml,
         ok |-> merged.ok]

\* Inputs: the shapes of unpacked trees.
WellFormed(shape) ==
    \A p \in DOMAIN shape :
        (Len(p) > 1 /\ shape[p] # "none") => shape[Parent(p)] = "dir"

Shapes ==
    {sh \in [TreePaths -> {"none", "dir", "file"}] :
        /\ WellFormed(sh)
        /\ sh[<<"res", "z">>] \in {"none", "file"}
        /\ sh[<<"lib">>] \in {"none", "dir"}
        /\ sh[<<"lib">>] = "dir" => sh[<<"lib", "x">>] = "file"
        /\ sh[<<"smali">>] \in {"none", "file"}
        /\ sh[<<"smali">>] = "file" =>
                sh[<<"res">>] = "none" /\ sh[<<"lib">>] = "dir"}

TreeOf(shape, k) ==
    [p \in TreePaths |->
        IF shape[p] = "file" THEN FileNode(k)
        ELSE IF shape[p] = "dir" THEN DirNode ELSE NoNode]

\* Lines of apktool.yml: 'doNotCompress:', '- a', '- b', '  - a', '', '# c',
\* '  # c', 'v: 1'.
YmlKey == KeyToken
YmlItemA == <<45, 32, 97>>
YmlItemB == <<45, 32, 98>>
YmlItemAIndented == <<32, 32, 45, 32, 97>>
YmlBlank == <<>>
YmlComment == <<35, 32, 99>>
YmlCommentIndented == <<32, 32, 35, 32, 99>>
YmlOther == <<118, 58, 32, 49>>

NoYml == [exists |-> FALSE, lines |-> <<>>]

Ymls ==
    { NoYml,
      [exists |-> TRUE, lines |-> <<YmlOther>>],
      [exists |-> TRUE, lines |-> <<YmlOther, YmlKey>>],
      [exists |-> TRUE, lines |-> <<YmlKey, YmlItemB, YmlItemA, YmlOther>>],
      [exists |-> TRUE, lines |-> <<YmlKey, YmlItemA, YmlBlank, YmlItemAIndented, YmlOther, YmlItemB>>],
      [exists |-> TRUE, lines |-> <<YmlKey, YmlComment, YmlItemB, YmlItemB>>],
      [exists |-> TRUE, lines |-> <<YmlKey, YmlItemB, YmlCommentIndented, YmlItemA>>] }

\* The trees that come with every apktool.yml of Ymls.
PlainShapes ==
    {sh \in Shapes : sh[<<"res">>] = "none" /\ sh[<<"smali">>] = "none"}

\* What a component may be: a tree of any shape without apktool.yml, or a
\* plain tree with any apktool.yml.
ComponentInputs ==
    {[shape |-> sh, yml |-> y] : sh \in Shapes, y \in {NoYml}}
        \cup {[shape |-> sh, yml |-> y] : sh \in PlainShapes, y \in Ymls}

\* The k-th component of a request (0 is the base).
Components(k) ==
    {[tree |-> TreeOf(c.shape, k), yml |-> c.yml] : c \in ComponentInputs}

MergePaths == {p \in TreePaths : \E k \in 1..Len(dirsToMerge) : p[1] = dirsToMerge[k]}

\* The node of the first component that holds path p, after one more.
FirstAfter(first, tree) ==
    [p \in TreePaths |-> IF first[p].kind # "none" THEN first[p] ELSE tree[p]]

\* mergeApkContents(base, secondary) for the next secondary of the request.
MergeNextSecondary ==
    /\ mPhase \in {"ready", "merged"}
    /\ mCount < MaxSecondaries
    /\ \E sec \in Components(mCount + 1), rev \in BOOLEAN :
        \E r \in {MergeApkContents([tree |-> mBase, yml |-> mYml], sec, rev)} :
            /\ mSec' = sec
            /\ mBase' = r.tree
            /\ mYml' = r.yml
            /\ mPhase' = IF r.ok THEN "merged" ELSE "failed"
            /\ mOnce' = [tree |-> r.tree, yml |-> r.yml]
            /\ mFirst' = FirstAfter(mFirst, sec.tree)
    /\ mPrev' = mBase
    /\ mPrevYml' = mYml
    /\ mCount' = mCount + 1
    /\ UNCHANGED <<pipeVars, manVars, scanVars, concVars>>

\* mergeApkContents(base, secondary) once more, for the secondary merged last.
MergeSameSecondaryAgain ==
    /\ mPhase = "merged"
    /\ \E rev \in BOOLEAN :
       \E r \in {MergeApkContents([tree |-> mBase, yml |-> mYml], mSec, rev)} :
           /\ mBase' = r.tree
           /\ mYml' = r.yml
           /\ mPhase' = IF r.ok THEN "remerged" ELSE "refailed"
    /\ mPrev' = mBase
    /\ mPrevYml' = mYml
    /\ UNCHANGED <<mSec, mOnce, mFirst, mCount>>
    /\ UNCHANGED <<pipeVars, manVars, scanVars, concVars>>

\* The base component, unpacked.
MergeInit ==
    /\ \E base \in Components(0) :
        /\ mBase = base.tree
        /\ mYml = base.yml
        /\ mFirst = base.tree
        /\ mPrev = base.tree
        /\ mPrevYml = base.yml
        /\ mOnce = [tree |-> base.tree, yml |-> base.yml]
        /\ mSec = base
    /\ mCount = 0
    /\ mPhase = "ready"
    /\ PipeIdle
    /\ ManifestIdle
    /\ ScanIdle
    /\ ConcIdle

MergeNext == MergeNextSecondary \/ MergeSameSecondaryAgain

MergeSpec == MergeInit /\ [][MergeNext]_vars

\* C7: the tree merge never overwrites: once the secondaries are merged in
\* order, every path under the merged directories holds in the base tree
\* what the first component holding that path has there, and a file the
\* base tree held before a merge call holds the same content after it.
C7_FirstComponentWins ==
    /\ mPhase \in {"merged", "remerged"} =>
            \A p \in MergePaths : mBase[p] = mFirst[p]
    /\ mPhase \in {"merged", "remerged", "failed", "refailed"} =>
            \A p \in TreePaths : mPrev[p].kind = "file" => mBase[p] = mPrev[p]

\* Two secondaries merged: lib/x came from the first, the second holds
\* another lib/x, and res/x stayed the base's.
C7_Witness ==
    /\ mPhase = "merged" /\ mCount = 2
    /\ mBase[<<"lib", "x">>] = FileNode(1)
    /\ mSec.tree[<<"lib", "x">>] = FileNode(2)
    /\ mBase[<<"res", "x">>] = FileNode(0)
    /\ mSec.tree[<<"res", "x">>].kind # "none"

\* C8: mergeApkContents(base, secondary) run a second time leaves the base
\* tree and its apktool.yml as the first run left them, and completes.
C8_MergeIdempotent ==
    /\ mPhase = "remerged" => [tree |-> mBase, yml |-> mYml] = mOnce
    /\ mPhase # "refailed"

\* A second run after a first run that copied lib/x into the base and
\* rewrote the base's do-not-compress block.
C8_Witness ==
    /\ mPhase = "remerged" /\ mCount = 1
    /\ mBase[<<"lib", "x">>] = FileNode(1)
    /\ mYml.exists /\ mSec.yml.exists
    /\ mYml.lines # mSec.yml.lines
    /\ Len(GetDoNotCompressLines(mSec.yml.lines)) > 0
    /\ GetDoNotCompressRange(mYml.lines).lines
            = SortStrings(SeqOfSet({YmlItemA, YmlItemB, YmlItemAIndented}))

\* The list-item lines of a file's do-not-compress block: the lines after
\* the key line that are list items, up to the first line that is neither
\* blank, nor a comment, nor a list item.
BlockItems(lines) == GetDoNotCompressRange(lines).lines

ItemSet(items) == {items[k] : k \in 1..Len(items)}

\* The last call merged two existing configs that both hold a block with
\* at least one item.
BothBlocksMerged ==
    /\ mPhase = "merged"
    /\ mPrevYml.exists /\ mSec.yml.exists
    /\ BlockItems(mPrevYml.lines) # <<>>
    /\ BlockItems(mSec.yml.lines) # <<>>

\* C11: when the base's and the secondary's config both hold a
\* do-not-compress block with at least one item, the base block's item lines
\* after mergeApktoolYml are the set union of the two blocks' item lines,
\* each line once, in ascending order.
C11_BlockIsSortedUnion ==
    BothBlocksMerged =>
        BlockItems(mYml.lines)
            = SortStrings(SeqOfSet(ItemSet(BlockItems(mPrevYml.lines))
                                    \cup ItemSet(BlockItems(mSec.yml.lines))))

\* The last call ran mergeApktoolYml, on two existing configs.
ConfigsMerged == mPhase = "merged" /\ mPrevYml.exists /\ mSec.yml.exists

\* mergeApktoolYml returned before the splice: the secondary has no items
\* or the base has no item range.
NothingToSplice ==
    \/ Len(GetDoNotCompressLines(mSec.yml.lines)) = 0
    \/ GetDoNotCompressRange(mPrevYml.lines).startIndex = -1

RECURSIVE IsSubsequence(_, _)
\* The lines of s occur in t in the same relative order.
IsSubsequence(s, t) ==
    IF s = <<>> THEN TRUE
    ELSE IF t = <<>> THEN FALSE
    ELSE IF Head(s) = Head(t) THEN IsSubsequence(Tail(s), Tail(t))
    ELSE IsSubsequence(s, Tail(t))

\* The lines of a config that are not list items of its block, in order.
LinesOutsideItems(lines) ==
    LET range == GetDoNotCompressRange(lines)
        isItem(k) == /\ range.startIndex # -1
                     /\ k - 1 >= range.startIndex /\ k - 1 <= range.endIndex
                     /\ StartsWith(Trim(lines[k]), ItemMarker)
        F[k \in 0..Len(lines)] ==
            IF k = 0 THEN <<>>
            ELSE IF isItem(k) THEN F[k - 1] ELSE Append(F[k - 1], lines[k])
    IN  F[Len(lines)]

\* C19 (as amended): mergeApktoolYml changes the base config only between
\* the first and the last list item of its block: the lines before the
\* first item and the lines after the last item are kept as they are, what
\* lies between them in the result are list items only, and when the base
\* has no item range or the secondary has no items the config is unchanged.
C19_OnlyItemRangeReplaced ==
    /\ (mPhase = "merged" /\ ~(mPrevYml.exists /\ mSec.yml.exists)) => mYml = mPrevYml
    /\ (ConfigsMerged /\ NothingToSplice) => mYml = mPrevYml
    /\ (ConfigsMerged /\ ~NothingToSplice) =>
            LET old == mPrevYml.lines
                new == mYml.lines
                range == GetDoNotCompressRange(old)
                after == Len(old) - (range.endIndex + 1)
            IN  /\ Len(new) >= range.startIndex + after
                /\ SubSeq(new, 1, range.startIndex) = SubSeq(old, 1, range.startIndex)
                /\ SubSeq(new, Len(new) - after + 1, Len(new))
                        = SubSeq(old, range.endIndex + 2, Len(old))
                /\ \A k \in (range.startIndex + 1)..(Len(new) - after) :
                        StartsWith(Trim(new[k]), ItemMarker)

\* A merge into a base whose block holds a blank line between two items and
\* is followed by other lines: the blank line is gone, the rest is kept.
C19_Witness ==
    /\ ConfigsMerged /\ ~NothingToSplice
    /\ mPrevYml.lines = <<YmlKey, YmlItemA, YmlBlank, YmlItemAIndented, YmlOther, YmlItemB>>
    /\ SubSeq(mYml.lines, Len(mYml.lines) - 1, Len(mYml.lines)) = <<YmlOther, YmlItemB>>
    /\ \A k \in 1..Len(mYml.lines) : mYml.lines[k] # YmlBlank

\* C19 as stated: every base line that is not a list item of the block,
\* blank and comment lines between the items included, is in the result in
\* its original relative order, and without an item range in the base or
\* items in the secondary the config is unchanged.
C19_AsStated ==
    /\ ConfigsMerged => IsSubsequence(LinesOutsideItems(mPrevYml.lines), mYml.lines)
    /\ (ConfigsMerged /\ NothingToSplice) => mYml = mPrevYml

---------------------------------------------------------------------------
(* updateMainManifestFile.                                                 *)
(*                                                                         *)
(* The manifest is a text; here a sequence of tokens, each a fixed string, *)
(* chosen so that a regular expression of the sanitizer matches the        *)
(* concatenated strings exactly where its token sequence occurs.           *)

SP == " "
SplitRequiredAttr == "android:isSplitRequired=\"true\""
GT == ">"
\* The element <meta-data android:name="com.android.vending.splits.required"
\* android:value="true"/>, in two parts.
RequiredMetaHead == "<meta-data android:name=\"com.android.vending.splits.required\" andr"
RequiredMetaTail == "oid:value=\"true\"/>"
SplitsMeta == "<meta-data android:name=\"com.android.vending.splits\" android:resource=\"@xml/splits0\"/>"
StampDistribution == "android:value=\"STAMP_TYPE_DISTRIBUTION_APK\""
StampStandalone == "android:value=\"STAMP_TYPE_STANDALONE_APK\""

ManifestTokens ==
    {SP, SplitRequiredAttr, GT, RequiredMetaHead, RequiredMetaTail, SplitsMeta,
     StampDistribution}

ManifestTexts == UNION {[1..n -> ManifestTokens] : n \in 0..MaxManifestLen}

RECURSIVE ReplaceAll(_, _, _)
\* String.prototype.replace with a global pattern: matches are found from
\* left to right, each search resuming after the previous match.
ReplaceAll(data, pattern, replacement) ==
    IF Len(data) < Len(pattern)
    THEN data
    ELSE IF SubSeq(data, 1, Len(pattern)) = pattern
         THEN replacement
                \o ReplaceAll(SubSeq(data, Len(pattern) + 1, Len(data)),
                              pattern, replacement)
         ELSE <<Head(data)>> \o ReplaceAll(Tail(data), pattern, replacement)

\* The four replacements of updateMainManifestFile, in order.
Sanitize(data) ==
    LET d1 == ReplaceAll(data, <<SP, SplitRequiredAttr, SP>>, <<SP>>)
        d2 == ReplaceAll(d1, <<RequiredMetaHead, RequiredMetaTail>>, <<>>)
        d3 == ReplaceAll(d2, <<SplitsMeta>>, <<>>)
    IN  ReplaceAll(d3, <<StampDistribution>>, <<StampStandalone>>)

\* updateMainManifestFile(apkDir): returns at once without a manifest.
UpdateMainManifestFile ==
    /\ manRuns < MaxSanitizerRuns
    /\ manRuns' = manRuns + 1
    /\ manText' = IF manExists THEN Sanitize(manText) ELSE manText
    /\ manOnce' = IF manRuns = 0 THEN manText' ELSE manOnce
    /\ UNCHANGED manExists
    /\ UNCHANGED <<pipeVars, mergeVars, scanVars, concVars>>

\* A base tree with any manifest text, or with no manifest.
ManifestInit ==
    /\ manExists \in BOOLEAN
    /\ manText \in IF manExists THEN ManifestTexts ELSE {<<>>}
    /\ manOnce = <<>>
    /\ manRuns = 0
    /\ PipeIdle
    /\ MergeIdle
    /\ ScanIdle
    /\ ConcIdle

ManifestNext == UpdateMainManifestFile

ManifestSpec == ManifestInit /\ [][ManifestNext]_vars

Occurs(token, data) == \E k \in 1..Len(data) : data[k] = token

\* C9: the manifest sanitizer is idempotent: a second run of
\* updateMainManifestFile leaves the text the first run produced.
C9_SanitizerIdempotent == manRuns >= 2 => manText = manOnce

\* C10: after the sanitizer has run, no android:isSplitRequired="true"
\* remains in the manifest.
C10_NoSplitRequiredLeft ==
    (manExists /\ manRuns >= 1) => ~Occurs(SplitRequiredAttr, manText)

---------------------------------------------------------------------------
(* The two scans of the do-not-compress block, on the same lines. *)

\* The lines an apktool.yml of the model is made of.
YmlLineKinds ==
    {YmlKey, YmlItemA, YmlItemB, YmlItemAIndented, YmlBlank, YmlComment,
     YmlCommentIndented, YmlOther}

\* srcContent.split('\n'): every sequence of up to MaxYmlLines lines.
YmlTexts == UNION {[1..n -> YmlLineKinds] : n \in 0..MaxYmlLines}

\* getDoNotCompressLines(lines) and getDoNotCompressRange(lines).
ScanBoth ==
    /\ scanPhase = "input"
    /\ scanItems' = GetDoNotCompressLines(scanLines)
    /\ scanRange' = GetDoNotCompressRange(scanLines)
    /\ scanPhase' = "scanned"
    /\ UNCHANGED scanLines
    /\ UNCHANGED <<pipeVars, mergeVars, manVars, concVars>>

ScanInit ==
    /\ scanLines \in YmlTexts
    /\ scanPhase = "input"
    /\ scanItems = <<>>
    /\ scanRange = <<>>
    /\ PipeIdle
    /\ MergeIdle
    /\ ManifestIdle
    /\ ConcIdle

ScanNext == ScanBoth

ScanSpec == ScanInit /\ [][ScanNext]_vars

\* C17: on every sequence of lines, getDoNotCompressLines returns the
\* list-item lines that getDoNotCompressRange returns, in the same order.
C17_ScansAgree == scanPhase = "scanned" => scanItems = scanRange.lines

---------------------------------------------------------------------------
(* Concurrent requests. *)

\* The mergeApks calls in flight in one server process.
Requests == {1, 2}

\* Date.now() advances by a millisecond.
Tick ==
    /\ clock < MaxClock
    /\ clock' = clock + 1
    /\ UNCHANGED <<cPc, cTmp, cWritten, cFailed, wsExists, wsFiles>>
    /\ UNCHANGED <<pipeVars, mergeVars, manVars, scanVars>>

\* createTmpDir: 'merge-apk-' + Date.now(), made with mkdir recursive, which
\* succeeds on a directory that exists.
ConcCreateTmpDir(r) ==
    /\ cPc[r] = "start"
    /\ cTmp' = [cTmp EXCEPT ![r] = clock]
    /\ wsExists' = wsExists \cup {clock}
    /\ cPc' = [cPc EXCEPT ![r] = "work"]
    /\ UNCHANGED <<clock, cWritten, cFailed, wsFiles>>
    /\ UNCHANGED <<pipeVars, mergeVars, manVars, scanVars>>

\* A step of the try block writes a file below tmpDir (copyFile of a split,
\* apktool d, ...); it throws when tmpDir is gone.
ConcWrite(r) ==
    /\ cPc[r] = "work"
    /\ cWritten[r] < MaxWrites
    /\ IF cTmp[r] \in wsExists
       THEN /\ wsFiles' = [wsFiles EXCEPT ![cTmp[r]] = @ \cup {r}]
            /\ cWritten' = [cWritten EXCEPT ![r] = @ + 1]
            /\ UNCHANGED <<cPc, cFailed>>
       ELSE /\ cFailed' = [cFailed EXCEPT ![r] = TRUE]
            /\ cPc' = [cPc EXCEPT ![r] = "finally"]
            /\ UNCHANGED <<wsFiles, cWritten>>
    /\ UNCHANGED <<clock, cTmp, wsExists>>
    /\ UNCHANGED <<pipeVars, mergeVars, manVars, scanVars>>

\* The try block completes, by return or by throw.
ConcFinish(r) ==
    /\ cPc[r] = "work"
    /\ cPc' = [cPc EXCEPT ![r] = "finally"]
    /\ UNCHANGED <<clock, cTmp, cWritten, cFailed, wsExists, wsFiles>>
    /\ UNCHANGED <<pipeVars, mergeVars, manVars, scanVars>>

\* finally: fs.promises.rm(tmpDir, { recursive: true, force: true }).
ConcCleanup(r) ==
    /\ cPc[r] = "finally"
    /\ wsExists' = wsExists \ {cTmp[r]}
    /\ wsFiles' = [wsFiles EXCEPT ![cTmp[r]] = {}]
    /\ cPc' = [cPc EXCEPT ![r] = "done"]
    /\ UNCHANGED <<clock, cTmp, cWritten, cFailed>>
    /\ UNCHANGED <<pipeVars, mergeVars, manVars, scanVars>>

ConcInit ==
    /\ clock = 0
    /\ cPc = [r \in Requests |-> "start"]
    /\ cTmp = [r \in Requests |-> -1]
    /\ cWritten = [r \in Requests |-> 0]
    /\ cFailed = [r \in Requests |-> FALSE]
    /\ wsExists = {}
    /\ wsFiles = [t \in 0..MaxClock |-> {}]
    /\ PipeIdle
    /\ MergeIdle
    /\ ManifestIdle
    /\ ScanIdle

ConcNext ==
    \/ Tick
    \/ \E r \in Requests : ConcCreateTmpDir(r)
    \/ \E r \in Requests : ConcWrite(r)
    \/ \E r \in Requests : ConcFinish(r)
    \/ \E r \in Requests : ConcCleanup(r)

ConcSpec == ConcInit /\ [][ConcNext]_vars

InFlight(r) == cPc[r] \in {"work", "finally"}

\* C13: two requests in flight never hold the same workspace directory, and
\* the files a running request has written are in its workspace: no other
\* request's cleanup has deleted them.
C13_DistinctWorkspaces ==
    /\ \A p, q \in Requests :
            (p # q /\ InFlight(p) /\ InFlight(q)) => cTmp[p] # cTmp[q]
    /\ \A r \in Requests :
            (cPc[r] = "work" /\ cWritten[r] > 0) => r \in wsFiles[cTmp[r]]

====
